---- MODULE Spec2Model ----
(***************************************************************************)
(* Model of the Arduino serial reader service (serial_reader.py): the      *)
(* forwarding loop of main, endpoint resolution (check_api_connection),    *)
(* submission (send_data_to_api) and port discovery (find_arduino_port).   *)
(* One step of the model is one pass through the body of `while running`.  *)
(* The device, the endpoint and the operator (signals) are the             *)
(* environment: what they answer is chosen with \E where the code asks.    *)
(***************************************************************************)
EXTENDS Integers, Sequences, FiniteSets, TLC

VARIABLES
  pc,                  \* "startup", "loop" or "exit": where main is
  ret,                 \* main's return value, None until it returns
  running,             \* the global flag cleared by signal_handler
  serial_port,         \* main's serial_port: a device path or None
  working_api_url,     \* main's working_api_url: a URL or None
  local_readings,      \* main's local_readings: the queue of unsent readings
  ser,                 \* main's ser: None or a serial.Serial object
  connection_attempts, \* main's connection_attempts
  file,                \* what main leaves in unsent_readings.json
  nread,               \* history: number of validated readings so far
  accepted,            \* history: the readings the endpoint answered 201, in order
  line,                \* last step: what readline returned (NoRead if no read)
  devlog,              \* last step: the device-side calls made, in order
  resolutions,         \* last step: the check_api_connection calls made
  posts,               \* last step: the POSTs made, in order, with their outcome
  answers,             \* resolver and healthy runs: what each candidate answers
  env,                 \* last step: the devices the startup saw (None otherwise)
  validated,           \* history: serial_port was returned by find_arduino_port
  unclosed             \* the paths on which a probe handle was opened and not closed

vars == <<pc, ret, running, serial_port, working_api_url, local_readings, ser,
          connection_attempts, file, nread, accepted, line, devlog,
          resolutions, posts, answers, env, validated, unclosed>>

\* Python's None.  Every value that may be None is a sequence: URLs and
\* device paths are non-empty sequences, an object x is held as <<x>>.
None == <<>>

\* ---------------------------------------------------------------- bounds
\* Number of validated readings one run of the model reads from the device.
MaxReadings == 4

\* ------------------------------------------------------------- constants
max_connection_attempts == 10
ProbeAttempts == 3
RecheckEvery == 5

\* URLs are sequences of path segments, so that removing the last segment
\* (url.rsplit('/', 1)[0]) is a real operation.
API_URL == <<"http://api:3001", "api", "readings">>

ALTERNATIVE_API_URLS ==
  << <<"http://localhost:3001", "api", "readings">>,
     <<"http://127.0.0.1:3001", "api", "readings">> >>

\* Device paths: <<"/dev/ttyUSB", i>> is f'/dev/ttyUSB{i}'.
DEFAULT_SERIAL_PORT == <<"/dev/ttyUSB", 0>>
SERIAL_PORT == DEFAULT_SERIAL_PORT

\* url.rsplit('/', 1)[0]
BaseUrl(url) == SubSeq(url, 1, Len(url) - 1)

Range(s) == {s[i] : i \in 1..Len(s)}

\* ------------------------------------------------------------ the device
\* A line is the sequence of byte groups readline returned; <<>> is the
\* empty bytes object of a read timeout.  "0xff" stands for bytes that are
\* not UTF-8, "\n" and " " for whitespace.
Lines ==
  { <<>>,
    <<"\n">>,
    <<"0xff", "\n">>,
    <<"pH:", "7.2", ",", "temp:", "0xff", "\n">>,
    <<"noise", "\n">>,
    <<"pH:", "7.2", "\n">>,
    <<"temp:", "21.5", "\n">>,
    <<" ", "pH:", "7.2", ",", "temp:", "21.5", "\n">> }

Whitespace == {" ", "\n"}

\* bytes.decode('utf-8'): raises UnicodeDecodeError on bytes that are not
\* UTF-8, and otherwise gives the text.
Decode(l) ==
  IF "0xff" \in Range(l)
  THEN [ok |-> FALSE, text |-> <<>>]
  ELSE [ok |-> TRUE, text |-> l]

RECURSIVE LStrip(_)
LStrip(s) ==
  IF s # <<>> /\ Head(s) \in Whitespace THEN LStrip(Tail(s)) ELSE s

RECURSIVE RStrip(_)
RStrip(s) ==
  IF s # <<>> /\ s[Len(s)] \in Whitespace
  THEN RStrip(SubSeq(s, 1, Len(s) - 1)) ELSE s

\* str.strip()
Strip(s) == RStrip(LStrip(s))

\* Variant: the line is rejected only when both markers are missing.
BadFormatBothMissing(data) ==
  "pH:" \notin Range(data) /\ "temp:" \notin Range(data)

\* "pH:" not in data or "temp:" not in data
BadFormat(data) == "pH:" \notin Range(data) \/ "temp:" \notin Range(data)


\* ---------------------------------------------------------- the endpoint
\* What an HTTP call gives: a response with a status code, or a raised
\* requests.exceptions.RequestException (timeout, refused connection).
Response(code) == [raised |-> FALSE, status_code |-> code]
RequestException == [raised |-> TRUE, status_code |-> 0]

ProbeResponses == {Response(200), Response(503), RequestException}
PostResponses == {Response(201), Response(500), RequestException}

Candidates == <<API_URL>> \o ALTERNATIVE_API_URLS
BaseUrls == {BaseUrl(Candidates[i]) : i \in 1..Len(Candidates)}

\* Variant: when every alternative has failed, the primary URL is returned.
RECURSIVE TryAlternativesFallback(_, _, _)
TryAlternativesFallback(resp, i, log) ==
  IF i > Len(ALTERNATIVE_API_URLS)
  THEN [url |-> API_URL, log |-> log]
  ELSE LET alt_url == ALTERNATIVE_API_URLS[i]
           base_url == BaseUrl(alt_url)
           response == resp[base_url]
           log1 == Append(log, [url |-> base_url, response |-> response])
       IN  IF ~response.raised /\ response.status_code = 200
           THEN [url |-> alt_url, log |-> log1]
           ELSE TryAlternativesFallback(resp, i + 1, log1)

\* check_api_connection, the loop over ALTERNATIVE_API_URLS.  resp is what
\* each health probe answers; log is the list of GETs issued so far.
RECURSIVE TryAlternatives(_, _, _)
TryAlternatives(resp, i, log) ==
  IF i > Len(ALTERNATIVE_API_URLS)
  THEN [url |-> None, log |-> log]
  ELSE LET alt_url == ALTERNATIVE_API_URLS[i]
           base_url == BaseUrl(alt_url)
           response == resp[base_url]
           log1 == Append(log, [url |-> base_url, response |-> response])
       IN  IF ~response.raised /\ response.status_code = 200
           THEN [url |-> alt_url, log |-> log1]
           ELSE TryAlternatives(resp, i + 1, log1)

\* Variant: any response that is not an exception counts as reachable.
RECURSIVE TryAlternativesAnyStatus(_, _, _)
TryAlternativesAnyStatus(resp, i, log) ==
  IF i > Len(ALTERNATIVE_API_URLS)
  THEN [url |-> None, log |-> log]
  ELSE LET alt_url == ALTERNATIVE_API_URLS[i]
           base_url == BaseUrl(alt_url)
           response == resp[base_url]
           log1 == Append(log, [url |-> base_url, response |-> response])
       IN  IF ~response.raised
           THEN [url |-> alt_url, log |-> log1]
           ELSE TryAlternativesAnyStatus(resp, i + 1, log1)

check_api_connection_any_status(url, resp) ==
  LET base_url == BaseUrl(url)
      response == resp[base_url]
      log1 == <<[url |-> base_url, response |-> response]>>
  IN  IF ~response.raised
      THEN [url |-> url, log |-> log1]
      ELSE TryAlternativesAnyStatus(resp, 1, log1)

\* check_api_connection(url): the URL returned and the GETs issued.
check_api_connection(url, resp) ==
  LET base_url == BaseUrl(url)
      response == resp[base_url]
      log1 == <<[url |-> base_url, response |-> response]>>
  IN  IF ~response.raised /\ response.status_code = 200
      THEN [url |-> url, log |-> log1]
      ELSE TryAlternatives(resp, 1, log1)

\* Variant: every response that is not an exception counts as sent.
send_data_to_api_any_response(data, api_url, response) == ~response.raised

\* send_data_to_api: True exactly on a 201 response.
send_data_to_api(data, api_url, response) ==
  IF response.raised THEN FALSE
  ELSE IF response.status_code = 201 THEN TRUE ELSE FALSE

\* One POST as the logs record it.
Post(data, api_url, response) ==
  [data |-> data, url |-> api_url, response |-> response]

\* Variant: the loop goes on after a failed send (no break).
RECURSIVE SendCachedNoBreak(_, _, _, _, _, _)
SendCachedNoBreak(q, api_url, outs, idx, successful_sends, log) ==
  IF idx > Len(q)
  THEN [successful_sends |-> successful_sends, log |-> log]
  ELSE LET log1 == Append(log, Post(q[idx], api_url, outs[idx]))
       IN  IF send_data_to_api(q[idx], api_url, outs[idx])
           THEN SendCachedNoBreak(q, api_url, outs, idx + 1,
                                  successful_sends \cup {idx}, log1)
           ELSE SendCachedNoBreak(q, api_url, outs, idx + 1,
                                  successful_sends, log1)

\* main, the loop over the cached readings: idx runs over local_readings
\* until the first failed send (break).  outs[idx] is what the endpoint
\* answers to the submission of local_readings[idx].
RECURSIVE SendCached(_, _, _, _, _, _)
SendCached(q, api_url, outs, idx, successful_sends, log) ==
  IF idx > Len(q)
  THEN [successful_sends |-> successful_sends, log |-> log]
  ELSE LET log1 == Append(log, Post(q[idx], api_url, outs[idx]))
       IN  IF send_data_to_api(q[idx], api_url, outs[idx])
           THEN SendCached(q, api_url, outs, idx + 1,
                           successful_sends \cup {idx}, log1)
           ELSE [successful_sends |-> successful_sends, log |-> log1]

\* Variant: the cache is emptied after the pass (local_readings = []).
RemoveSentAll(q, successful_sends, i) == <<>>

\* Variant: nothing is removed after the pass.
RemoveSentNone(q, successful_sends, i) == q

\* Variant: the remaining readings are collected in reverse order.
RECURSIVE RemoveSentReversed(_, _, _)
RemoveSentReversed(q, successful_sends, i) ==
  IF i > Len(q) THEN <<>>
  ELSE IF i \notin successful_sends
       THEN RemoveSentReversed(q, successful_sends, i + 1) \o <<q[i]>>
       ELSE RemoveSentReversed(q, successful_sends, i + 1)

\* [r for i, r in enumerate(local_readings) if i not in successful_sends]
RECURSIVE RemoveSent(_, _, _)
RemoveSent(q, successful_sends, i) ==
  IF i > Len(q) THEN <<>>
  ELSE IF i \notin successful_sends
       THEN <<q[i]>> \o RemoveSent(q, successful_sends, i + 1)
       ELSE RemoveSent(q, successful_sends, i + 1)


\* ------------------------------------------------------------- discovery
\* The device nodes the modelled machine can have.
USB0 == <<"/dev/ttyUSB", 0>>
USB1 == <<"/dev/ttyUSB", 1>>
ACM0 == <<"/dev/ttyACM", 0>>
DevicePaths == {USB0, ACM0}

\* What readline gives during a probe: bytes, or a raised exception.
Bytes(l) == [raised |-> FALSE, bytes |-> l]
ReadError == [raised |-> TRUE, bytes |-> <<>>]

ValidLine == <<"pH:", "7.2", ",", "temp:", "21.5", "\n">>

\* How a device node behaves while discovery looks at it: whether the path
\* exists, whether serial.Serial opens it in find_arduino_port (opens) and in
\* test_read_from_port (probe_opens), whether flushInput works, and what
\* the reads of the probe return.
PortBehaviour(exists, opens, probe_opens, flush_ok, reads) ==
  [exists |-> exists, opens |-> opens, probe_opens |-> probe_opens,
   flush_ok |-> flush_ok, reads |-> reads]

Silence == <<Bytes(<<>>), Bytes(<<>>), Bytes(<<>>)>>

PortBehaviours ==
  { PortBehaviour(FALSE, FALSE, FALSE, FALSE, Silence),
    PortBehaviour(TRUE, FALSE, FALSE, FALSE, Silence),
    PortBehaviour(TRUE, TRUE, TRUE, FALSE, Silence),
    PortBehaviour(TRUE, TRUE, TRUE, TRUE,
                  <<Bytes(<<>>), Bytes(<<"noise", "\n">>), ReadError>>),
    PortBehaviour(TRUE, TRUE, TRUE, TRUE,
                  <<Bytes(<<>>), Bytes(<<"0xff", "\n">>), Bytes(ValidLine)>>),
    PortBehaviour(TRUE, TRUE, TRUE, TRUE,
                  <<Bytes(ValidLine), Bytes(<<>>), Bytes(<<>>)>>),
    PortBehaviour(TRUE, TRUE, FALSE, TRUE,
                  <<Bytes(ValidLine), Bytes(<<>>), Bytes(<<>>)>>),
    PortBehaviour(TRUE, TRUE, TRUE, TRUE,
                  <<Bytes(<<"pH:", "7.2", "\n">>), ReadError,
                    Bytes(<<"0xff", "pH:", "7.2", ",", "temp:", "21.5", "\n">>),
                    Bytes(ValidLine)>>) }

\* The device environments find_arduino_port is run against on its own.
DiscoveryPaths == {USB0, USB1, ACM0}
AllDeviceEnvs == [DiscoveryPaths -> PortBehaviours]

\* The device environments the forwarding loop is run against: a node is
\* absent, a decoy that opens but sends no sensor data, or the sensor.
DeviceEnvs ==
  [DevicePaths ->
     { PortBehaviour(FALSE, FALSE, FALSE, FALSE, Silence),
       PortBehaviour(TRUE, TRUE, TRUE, TRUE,
                     <<Bytes(<<>>), Bytes(<<"noise", "\n">>), ReadError>>),
       PortBehaviour(TRUE, TRUE, TRUE, TRUE,
                     <<Bytes(<<>>), Bytes(<<"0xff", "\n">>), Bytes(ValidLine)>>) }]

\* os.path.exists(port)
Exists(dev, port) == port \in DOMAIN dev /\ dev[port].exists

\* Variant: the last attempt is not made.
RECURSIVE ReadAttemptsShort(_, _, _)
ReadAttemptsShort(reads, i, attempts) ==
  IF i >= attempts THEN FALSE
  ELSE LET r == reads[i]
       IN  IF r.raised THEN ReadAttemptsShort(reads, i + 1, attempts)
           ELSE IF r.bytes = <<>> THEN ReadAttemptsShort(reads, i + 1, attempts)
           ELSE LET d == Decode(r.bytes)
                IN  IF ~d.ok THEN ReadAttemptsShort(reads, i + 1, attempts)
                    ELSE LET data == Strip(d.text)
                         IN  IF "pH:" \in Range(data) /\ "temp:" \in Range(data)
                             THEN TRUE
                             ELSE ReadAttemptsShort(reads, i + 1, attempts)

\* test_read_from_port, the loop `for i in range(attempts)`.
RECURSIVE ReadAttempts(_, _, _)
ReadAttempts(reads, i, attempts) ==
  IF i > attempts THEN FALSE
  ELSE LET r == reads[i]
       IN  IF r.raised THEN ReadAttempts(reads, i + 1, attempts)
           ELSE IF r.bytes = <<>> THEN ReadAttempts(reads, i + 1, attempts)
           ELSE LET d == Decode(r.bytes)
                IN  IF ~d.ok THEN ReadAttempts(reads, i + 1, attempts)
                    ELSE LET data == Strip(d.text)
                         IN  IF "pH:" \in Range(data) /\ "temp:" \in Range(data)
                             THEN TRUE
                             ELSE ReadAttempts(reads, i + 1, attempts)

\* test_read_from_port(port, attempts=3)
test_read_from_port(b, attempts) ==
  IF ~b.probe_opens THEN FALSE
  ELSE IF ~b.flush_ok THEN FALSE
  ELSE ReadAttempts(b.reads, 1, attempts)

\* find_arduino_port, the loop `for port in ports`.
RECURSIVE TryPorts(_, _, _)
TryPorts(dev, ports, i) ==
  IF i > Len(ports) THEN None
  ELSE LET port == ports[i]
       IN  IF dev[port].opens /\ test_read_from_port(dev[port], ProbeAttempts)
           THEN port
           ELSE TryPorts(dev, ports, i + 1)

\* test_read_from_port: the handle of line 112 is closed at line 127 or at
\* line 140; when flushInput raises, the handler of lines 142-143 returns
\* without a close.
ProbeLeavesOpen(b) == b.probe_opens /\ ~b.flush_ok

\* find_arduino_port, the loop `for port in ports`: the ports whose probe
\* handle no statement has closed when the function returns.
RECURSIVE HandlesLeft(_, _, _)
HandlesLeft(dev, ports, i) ==
  IF i > Len(ports) THEN {}
  ELSE LET port == ports[i]
           here == IF dev[port].opens /\ ProbeLeavesOpen(dev[port])
                   THEN {port} ELSE {}
       IN  IF dev[port].opens /\ test_read_from_port(dev[port], ProbeAttempts)
           THEN here
           ELSE here \cup HandlesLeft(dev, ports, i + 1)

\* [f'/dev/ttyUSB{i}' for i in range(4) if os.path.exists(...)]
RECURSIVE UsbPorts(_, _)
UsbPorts(dev, i) ==
  IF i >= 4 THEN <<>>
  ELSE (IF Exists(dev, <<"/dev/ttyUSB", i>>)
        THEN << <<"/dev/ttyUSB", i>> >> ELSE <<>>) \o UsbPorts(dev, i + 1)

\* glob.glob('/dev/ttyACM*')
AcmPorts(dev) == IF Exists(dev, ACM0) THEN <<ACM0>> ELSE <<>>

\* find_arduino_port() on a POSIX platform.
find_arduino_port(dev) ==
  LET ports == UsbPorts(dev, 0) \o AcmPorts(dev)
  IN  IF ports = <<>> THEN None ELSE TryPorts(dev, ports, 1)


\* ------------------------------------------------------------------ main
\* The cap on connection_attempts in the model: a failed connect is only
\* offered below it.  The code's counter has no upper limit.
MaxAttempts == 11

\* A validated reading: the stripped text of the line.  seq is history: the
\* position of the reading among the validated readings of the run.
Reading(n, data) == [seq |-> n, text |-> data]

NoLine == [kind |-> "none", bytes |-> <<>>]
SerialException == [kind |-> "SerialException", bytes |-> <<>>]
\* An exception of readline that is not a SerialException.
OtherException == [kind |-> "Exception", bytes |-> <<>>]
LineRead(l) == [kind |-> "bytes", bytes |-> l]

\* json.dump(local_readings, f): the list of texts.
JsonDump(q) == [i \in 1..Len(q) |-> q[i].text]

\* An unsent_readings.json left by an earlier run.
OldFile == << <<"pH:", "6.9", ",", "temp:", "20.0">> >>

\* The 201 answers of a list of POSTs, as entries of `accepted`.
RECURSIVE Accepted201(_)
Accepted201(log) ==
  IF log = <<>> THEN <<>>
  ELSE (IF ~Head(log).response.raised /\ Head(log).response.status_code = 201
        THEN <<Head(log).data>>
        ELSE <<>>) \o Accepted201(Tail(log))

\* The state as a record.  split is not state: it tells the operators of a
\* pass whether the pass is run in two steps (ReadPhase, DeliverPhase) or
\* in one (Cycle).
Cur ==
  [pc |-> pc, ret |-> ret, running |-> running, serial_port |-> serial_port,
   working_api_url |-> working_api_url, local_readings |-> local_readings,
   ser |-> ser, connection_attempts |-> connection_attempts, file |-> file,
   nread |-> nread, accepted |-> accepted, line |-> line, devlog |-> devlog,
   resolutions |-> resolutions, posts |-> posts, answers |-> answers,
   env |-> env, validated |-> validated, unclosed |-> unclosed,
   split |-> FALSE]

\* The state at the start of a step: the logs of the last step are cleared.
Base ==
  [Cur EXCEPT !.line = NoLine, !.devlog = <<>>, !.resolutions = <<>>,
              !.posts = <<>>, !.env = None]

Commit(s) ==
  /\ pc' = s.pc
  /\ ret' = s.ret
  /\ running' = s.running
  /\ serial_port' = s.serial_port
  /\ working_api_url' = s.working_api_url
  /\ local_readings' = s.local_readings
  /\ ser' = s.ser
  /\ connection_attempts' = s.connection_attempts
  /\ file' = s.file
  /\ nread' = s.nread
  /\ accepted' = s.accepted
  /\ line' = s.line
  /\ devlog' = s.devlog
  /\ resolutions' = s.resolutions
  /\ posts' = s.posts
  /\ answers' = s.answers
  /\ env' = s.env
  /\ validated' = s.validated
  /\ unclosed' = s.unclosed

\* What the health probes of one check_api_connection call answer.  A probe
\* that comes after the first 200 in candidate order is not issued by the
\* code; its answer is fixed to 200 to keep the set small.
AllProbeOracles == [BaseUrls -> ProbeResponses]

NormalOracles ==
  { resp \in AllProbeOracles :
      \A i, j \in 1..Len(Candidates) :
        (i < j /\ resp[BaseUrl(Candidates[i])] = Response(200))
          => resp[BaseUrl(Candidates[j])] = Response(200) }

\* The oracles the forwarding loop is run against: the candidates before
\* the first healthy one either all answer 503 or all refuse the connection.
ProbeOracles ==
  { resp \in NormalOracles :
      \A i, j \in 1..Len(Candidates) :
        (resp[BaseUrl(Candidates[i])] # Response(200)
           /\ resp[BaseUrl(Candidates[j])] # Response(200))
          => resp[BaseUrl(Candidates[i])] = resp[BaseUrl(Candidates[j])] }

\* What the endpoint answers to the submissions of n cached readings.  The
\* answers after the first failure are fixed to 201 to keep the set small.
CachedOracles(n) ==
  { outs \in [1..n -> PostResponses] :
      \A i, j \in 1..n :
        (i < j /\ outs[i] # Response(201)) => outs[j] = Response(201) }

\* working_api_url = check_api_connection()
Resolve(s, resp) ==
  LET c == check_api_connection(API_URL, resp)
  IN  [s EXCEPT !.working_api_url = c.url,
                !.resolutions = Append(@, c)]

\* Variant: the cached readings are not sent after a successful send.
SendCachedReadingsSkipped(s) == Commit(s)

\* main, lines 305-321: the reading was sent; send the cached readings.
SendCachedReadings(s) ==
  IF s.local_readings # <<>>
  THEN \E outs \in CachedOracles(Len(s.local_readings)) :
         LET d == SendCached(s.local_readings, s.working_api_url, outs, 1,
                             {}, <<>>)
         IN  Commit([s EXCEPT
                 !.local_readings = RemoveSent(@, d.successful_sends, 1),
                 !.posts = @ \o d.log,
                 !.accepted = @ \o Accepted201(d.log)])
  ELSE Commit(s)

\* Variant: after a failed submission the endpoint is replaced only when
\* the re-resolution found one.
SubmitKeepsUrl(s, r) ==
  IF s.working_api_url # None
  THEN \E response \in PostResponses :
         LET p == Post(r, s.working_api_url, response)
             s1 == [s EXCEPT !.posts = Append(@, p),
                             !.accepted = @ \o Accepted201(<<p>>)]
         IN  IF send_data_to_api(r, s.working_api_url, response)
             THEN SendCachedReadings(s1)
             ELSE \E resp \in ProbeOracles :
                    LET s2 == Resolve([s1 EXCEPT !.local_readings =
                                                    Append(@, r)], resp)
                    IN  Commit(IF s2.working_api_url = None
                               THEN [s2 EXCEPT !.working_api_url =
                                                  s.working_api_url]
                               ELSE s2)
  ELSE LET s1 == [s EXCEPT !.local_readings = Append(@, r)]
       IN  IF Len(s1.local_readings) % RecheckEvery = 0
           THEN \E resp \in ProbeOracles : Commit(Resolve(s1, resp))
           ELSE Commit(s1)

\* main, lines 302-335: send the reading or store it.
Submit(s, r) ==
  IF s.working_api_url # None
  THEN \E response \in PostResponses :
         LET p == Post(r, s.working_api_url, response)
             s1 == [s EXCEPT !.posts = Append(@, p),
                             !.accepted = @ \o Accepted201(<<p>>)]
         IN  IF send_data_to_api(r, s.working_api_url, response)
             THEN SendCachedReadings(s1)
             ELSE \E resp \in ProbeOracles :
                    Commit(Resolve([s1 EXCEPT !.local_readings = Append(@, r)],
                                   resp))
  ELSE LET s1 == [s EXCEPT !.local_readings = Append(@, r)]
       IN  IF Len(s1.local_readings) % RecheckEvery = 0
           THEN \E resp \in ProbeOracles : Commit(Resolve(s1, resp))
           ELSE Commit(s1)

\* main, lines 298-300: a validated reading; resolve an endpoint if none.
Deliver(s, data) ==
  /\ nread < MaxReadings
  /\ LET r == Reading(nread + 1, data)
         s1 == [s EXCEPT !.nread = @ + 1]
     IN  IF s1.working_api_url = None
         THEN \E resp \in ProbeOracles : Submit(Resolve(s1, resp), r)
         ELSE Submit(s1, r)

\* Variant: a read timeout is handled like a device fault.
OnTimeoutReconnect(s) ==
  Commit([s EXCEPT !.ser = None, !.devlog = Append(@, "close")])

\* main, lines 272-275: readline returned nothing (timeout); continue.
OnTimeout(s) == Commit(s)

\* Variant: an undecodable line is handled like a device fault.
OnDecodeErrorReconnect(s) ==
  Commit([s EXCEPT !.ser = None, !.devlog = Append(@, "close")])

\* main, lines 280-283: `except UnicodeDecodeError`; log and continue.
OnDecodeError(s) == Commit(s)

\* main, line 298: the line passed the format check and the pass goes on
\* to the delivery.  When the pass is run in two steps, the first step ends
\* here, with the line in `line`.
Handoff(s, data) ==
  IF s.split
  THEN nread < MaxReadings /\ Commit([s EXCEPT !.pc = "deliver"])
  ELSE Deliver(s, data)

\* main, lines 272-296: timeout, decode, strip, format check.
Process(s, serial_line) ==
  IF serial_line = <<>> THEN OnTimeout(s)
  ELSE LET d == Decode(serial_line)
       IN  IF ~d.ok THEN OnDecodeError(s)
           ELSE LET data == Strip(d.text)
                IN  IF data = <<>> THEN Commit(s)
                    ELSE IF BadFormat(data) THEN Commit(s)
                    ELSE Handoff(s, data)

\* ser.readline() on handle h: a closed Serial object raises
\* PortNotOpenError (a SerialException); an open one returns bytes or
\* raises SerialException when the device fails.
ReadResults(h) ==
  IF h.is_open
  THEN {SerialException, OtherException} \cup {LineRead(l) : l \in Lines}
  ELSE {SerialException}

\* Variant: a device fault ends the run.
OnSerialExceptionExit(s, h) ==
  Commit([s EXCEPT !.devlog = Append(@, "close"), !.ser = None,
                   !.pc = "exit", !.ret = <<1>>])

\* main, lines 341-350: `except serial.SerialException`.  ser.close() can
\* raise on an open handle, and `ser = None` is then skipped.
OnSerialException(s, h) ==
  \E close_ok \in (IF h.is_open THEN BOOLEAN ELSE {TRUE}) :
    LET s2 == [s EXCEPT !.devlog = Append(@, "close")]
    IN  IF close_ok THEN Commit([s2 EXCEPT !.ser = None])
        ELSE Commit(s2)

\* main, lines 356-358: `except Exception`; log, sleep, next pass.
OnException(s) == Commit(s)

\* main, lines 269-271 and the handlers of lines 341-358.
ReadLine(s) ==
  LET h == s.ser[1]
  IN  \E rd \in ReadResults(h) :
        LET s1 == [s EXCEPT !.devlog = Append(@, "readline"), !.line = rd]
        IN  IF rd.kind = "SerialException" THEN OnSerialException(s1, h)
            ELSE IF rd.kind = "Exception" THEN OnException(s1)
            ELSE Process(s1, rd.bytes)

\* serial.Serial(serial_port, ...) followed by flushInput.  Serial(None)
\* builds an object without opening it, and flushInput then raises.  On a
\* path, the open works or raises; flushInput on a port that was just
\* opened is taken to work.
ConnectOutcomes(port) ==
  IF port = None THEN {"flush_raises"} ELSE {"ok", "open_raises"}

\* main, lines 255-267.
Connect(s) ==
  \E o \in ConnectOutcomes(s.serial_port) :
    LET s1 == [s EXCEPT !.devlog = Append(@, "Serial")]
        h == [port |-> s.serial_port, is_open |-> s.serial_port # None]
    IN  IF o = "ok"
        THEN ReadLine([s1 EXCEPT !.ser = <<h>>, !.connection_attempts = 0])
        ELSE /\ s.connection_attempts < MaxAttempts
             /\ IF o = "open_raises"
                THEN Commit([s1 EXCEPT !.connection_attempts = @ + 1])
                ELSE Commit([s1 EXCEPT !.ser = <<h>>,
                                       !.connection_attempts = @ + 1])

\* serial_port = find_arduino_port(), with the devices as they are now.
Discover(s, dev) ==
  LET found == find_arduino_port(dev)
  IN  [s EXCEPT !.serial_port = found,
                !.devlog = Append(@, "find_arduino_port"),
                !.validated = found # None,
                !.unclosed = @ \cup HandlesLeft(dev, UsbPorts(dev, 0)
                                                       \o AcmPorts(dev), 1)]

\* main, lines 244-253.
ConnectIfNeeded(s) ==
  IF s.ser = None
  THEN IF s.connection_attempts >= max_connection_attempts
       THEN \E dev \in DeviceEnvs :
              LET s1 == Discover(s, dev)
              IN  IF s1.serial_port = None
                  THEN Commit([s1 EXCEPT !.connection_attempts = 0])
                  ELSE Connect(s1)
       ELSE Connect(s)
  ELSE ReadLine(s)

\* Variant: when no device is found the default path is used and the loop
\* is entered.
StartupDefaultPort ==
  /\ pc = "startup"
  /\ \E dev \in DeviceEnvs :
       LET missing == ~Exists(dev, SERIAL_PORT)
           s0 == [Base EXCEPT !.env = <<dev>>]
           s1 == IF missing THEN Discover(s0, dev)
                 ELSE [s0 EXCEPT !.serial_port = SERIAL_PORT,
                                 !.validated = FALSE]
           s2 == IF s1.serial_port = None
                 THEN [s1 EXCEPT !.serial_port = DEFAULT_SERIAL_PORT]
                 ELSE s1
       IN  \E resp \in ProbeOracles :
             Commit([Resolve(s2, resp) EXCEPT
                       !.pc = "loop", !.local_readings = <<>>,
                       !.ser = None, !.connection_attempts = 0])

\* main, lines 218-239: startup, up to the first test of `while running`.
Startup ==
  /\ pc = "startup"
  /\ \E dev \in DeviceEnvs :
       LET missing == ~Exists(dev, SERIAL_PORT)
           s0 == [Base EXCEPT !.env = <<dev>>]
           s1 == IF missing THEN Discover(s0, dev)
                 ELSE [s0 EXCEPT !.serial_port = SERIAL_PORT,
                                 !.validated = FALSE]
       IN  IF s1.serial_port = None
           THEN Commit([s1 EXCEPT !.pc = "exit", !.ret = <<1>>])
           ELSE \E resp \in ProbeOracles :
                  Commit([Resolve(s1, resp) EXCEPT
                            !.pc = "loop", !.local_readings = <<>>,
                            !.ser = None, !.connection_attempts = 0])

\* One pass through the body of `while running`.
Cycle ==
  /\ pc = "loop"
  /\ running
  /\ ConnectIfNeeded(Base)

\* signal_handler: SIGINT or SIGTERM arrives.
Signal ==
  /\ pc \in {"startup", "loop"}
  /\ running
  /\ Commit([Base EXCEPT !.running = FALSE])

\* Variant: the queue is not written at shutdown.
CleanupNoSave ==
  /\ pc = "loop"
  /\ ~running
  /\ \E close_ok \in BOOLEAN, existing \in {None, <<OldFile>>} :
       LET s1 == IF ser # None
                 THEN [Base EXCEPT
                         !.devlog = <<"close">>,
                         !.ser = IF close_ok
                                 THEN <<[ser[1] EXCEPT !.is_open = FALSE]>>
                                 ELSE @]
                 ELSE Base
       IN  Commit([s1 EXCEPT !.file = existing,
                             !.pc = "exit", !.ret = <<0>>])

\* main, lines 360-375: `while running` is left; close, save, return 0.
Cleanup ==
  /\ pc = "loop"
  /\ ~running
  /\ \E close_ok \in BOOLEAN, existing \in {None, <<OldFile>>} :
       LET s1 == IF ser # None
                 THEN [Base EXCEPT
                         !.devlog = <<"close">>,
                         !.ser = IF close_ok
                                 THEN <<[ser[1] EXCEPT !.is_open = FALSE]>>
                                 ELSE @]
                 ELSE Base
       IN  Commit([s1 EXCEPT
                     !.file = IF local_readings # <<>>
                              THEN <<JsonDump(local_readings)>>
                              ELSE existing,
                     !.pc = "exit", !.ret = <<0>>])

Init ==
  /\ pc = "startup"
  /\ ret = None
  /\ running = TRUE
  /\ serial_port = None
  /\ working_api_url = None
  /\ local_readings = <<>>
  /\ ser = None
  /\ connection_attempts = 0
  /\ file = None
  /\ nread = 0
  /\ accepted = <<>>
  /\ line = NoLine
  /\ devlog = <<>>
  /\ resolutions = <<>>
  /\ posts = <<>>
  /\ answers = [b \in BaseUrls |-> RequestException]
  /\ env = None
  /\ validated = FALSE
  /\ unclosed = {}

Next == Startup \/ Cycle \/ Signal \/ Cleanup

Spec == Init /\ [][Next]_vars

\* Every blocking call returns within its timeout: once `while running` has
\* been left, the shutdown sequence of lines 360-375 runs to its end.  (A
\* pass of the loop is one step, so it always ends.)
SpecLive == Spec /\ WF_vars(Cleanup)


\* ------------------------------------------------- a pass in two steps
\* The same program with the position inside a pass made visible: a pass
\* that reads a valid line stops before line 298 (pc = "deliver"), and the
\* rest of the pass is a second step.  A signal can then arrive in between,
\* that is, while the pass was blocked in ser.readline().

\* main, lines 241-296 of one pass: connect if needed, read, validate.
ReadPhase ==
  /\ pc = "loop"
  /\ running
  /\ ConnectIfNeeded([Base EXCEPT !.split = TRUE])

\* main, lines 298-339 of the same pass: resolve, send or store, drain.
\* `running` is not read here: the code tests it at line 241 only.
DeliverPhase ==
  /\ pc = "deliver"
  /\ Deliver([Cur EXCEPT !.pc = "loop"], Strip(Decode(line.bytes).text))

\* signal_handler, run while the pass is between its two steps.
SignalInPass ==
  /\ pc = "deliver"
  /\ running
  /\ Commit([Cur EXCEPT !.running = FALSE])

NextPhases ==
  Startup \/ ReadPhase \/ DeliverPhase \/ Signal \/ SignalInPass \/ Cleanup

SpecPhases == Init /\ [][NextPhases]_vars


\* ------------------------------------------------- resolver on its own
\* check_api_connection run against every combination of answers of the
\* three candidates, 204 (a success status that is not 200) included.
ResolverResponses == ProbeResponses \cup {Response(204)}

ResolverInit ==
  /\ pc = "check_api_connection"
  /\ ret = None
  /\ running = TRUE
  /\ serial_port = None
  /\ working_api_url = None
  /\ local_readings = <<>>
  /\ ser = None
  /\ connection_attempts = 0
  /\ file = None
  /\ nread = 0
  /\ accepted = <<>>
  /\ line = NoLine
  /\ devlog = <<>>
  /\ resolutions = <<>>
  /\ posts = <<>>
  /\ answers \in [BaseUrls -> ResolverResponses]
  /\ env = None
  /\ validated = FALSE
  /\ unclosed = {}

\* working_api_url = check_api_connection()
ResolverCall ==
  /\ pc = "check_api_connection"
  /\ Commit([Resolve(Cur, answers) EXCEPT !.pc = "resolved"])

ResolverNext == ResolverCall

SpecResolver == ResolverInit /\ [][ResolverNext]_vars


\* ------------------------------------------------- a healthy environment
\* The loop from the point on where the environment is healthy for good:
\* `answers` is fixed, at least one candidate answers its health probe with
\* 200, a POST to such a candidate is answered 201 and a POST to any other
\* candidate fails; the device can be opened and sends a valid line in
\* every pass that is not a read timeout.

HealthyOracles ==
  {resp \in ProbeOracles : \E b \in BaseUrls : resp[b] = Response(200)}

\* The states the healthy period can start in: in the loop, connected or
\* not, with or without an endpoint, with a queue that leaves room for two
\* more readings under MaxReadings.
HealthyQueues ==
  { [i \in 1..n |-> Reading(i, Strip(Decode(ValidLine).text))] :
      n \in 0..(MaxReadings - 2) }

HealthyInit ==
  /\ pc = "loop"
  /\ ret = None
  /\ running = TRUE
  /\ serial_port = SERIAL_PORT
  /\ working_api_url \in {None} \cup Range(Candidates)
  /\ local_readings \in HealthyQueues
  /\ ser \in {None, <<[port |-> SERIAL_PORT, is_open |-> TRUE]>>}
  /\ connection_attempts = 0
  /\ file = None
  /\ nread = Len(local_readings)
  /\ accepted = <<>>
  /\ line = NoLine
  /\ devlog = <<>>
  /\ resolutions = <<>>
  /\ posts = <<>>
  /\ answers \in HealthyOracles
  /\ env = None
  /\ validated = FALSE
  /\ unclosed = {}

\* What the endpoint api_url answers to a POST in the healthy period.
HealthyAnswer(api_url) ==
  IF answers[BaseUrl(api_url)] = Response(200) THEN Response(201)
  ELSE RequestException

\* The requests of the step were answered as `answers` says.
AnsweredByAnswers ==
  /\ \A i \in DOMAIN resolutions' :
       resolutions'[i] = check_api_connection(API_URL, answers)
  /\ \A i \in DOMAIN posts' :
       posts'[i].response = HealthyAnswer(posts'[i].url)

\* A pass of the loop that reads a valid line.
HealthyCycle ==
  /\ Cycle
  /\ nread' = nread + 1
  /\ AnsweredByAnswers

\* A pass of the loop whose read times out.
QuietCycle ==
  /\ Cycle
  /\ line' = LineRead(<<>>)

HealthyNext == HealthyCycle \/ QuietCycle

\* The device keeps producing valid lines: weak fairness of HealthyCycle.
\* HealthyCycle is enabled exactly in the states with nread < MaxReadings
\* (a connect that works and a valid line are always among the outcomes of
\* a pass), so WF_vars(HealthyCycle) is written with that state predicate
\* in the place of ENABLED <<HealthyCycle>>_vars.
HealthyFairness ==
  []<>(nread >= MaxReadings) \/ []<><<HealthyCycle>>_vars

SpecHealthy == HealthyInit /\ [][HealthyNext]_vars /\ HealthyFairness


\* ------------------------------------------------ discovery on its own
\* find_arduino_port run against every combination of behaviours of three
\* device nodes.
DiscoveryInit ==
  /\ pc = "find_arduino_port"
  /\ ret = None
  /\ running = TRUE
  /\ serial_port = None
  /\ working_api_url = None
  /\ local_readings = <<>>
  /\ ser = None
  /\ connection_attempts = 0
  /\ file = None
  /\ nread = 0
  /\ accepted = <<>>
  /\ line = NoLine
  /\ devlog = <<>>
  /\ resolutions = <<>>
  /\ posts = <<>>
  /\ answers = [b \in BaseUrls |-> RequestException]
  /\ env \in {<<dev>> : dev \in AllDeviceEnvs}
  /\ validated = FALSE
  /\ unclosed = {}

\* serial_port = find_arduino_port().  A handle that no statement closed
\* is closed by the finalizer of the Serial object if the interpreter runs
\* it when the probe returns (finalized), and stays open otherwise.
DiscoveryCall ==
  /\ pc = "find_arduino_port"
  /\ \E finalized \in BOOLEAN :
       Commit([Discover(Cur, env[1]) EXCEPT
                 !.pc = "discovered",
                 !.unclosed = IF finalized THEN {} ELSE @])

DiscoveryNext == DiscoveryCall

SpecDiscovery == DiscoveryInit /\ [][DiscoveryNext]_vars


\* ------------------------------------------- rpi_client.py, the delivery
\* The delivery part of one pass of rpi_client.main (lines 299-355), run on
\* a validated reading against every queue of up to MaxReadings - 1 cached
\* readings.  rpi_client has the same API_URL, the same alternatives and
\* the same health test as serial_reader, so check_api_connection is the
\* operator above.

\* rpi_client.main, lines 319-331: `for cached_data in local_readings`, left
\* by `break` only when requests.post raises; the status is logged only.
RECURSIVE RpiSendCached(_, _, _, _, _)
RpiSendCached(q, api_url, outs, idx, log) ==
  IF idx > Len(q) THEN log
  ELSE LET log1 == Append(log, Post(q[idx], api_url, outs[idx]))
       IN  IF outs[idx].raised THEN log1
           ELSE RpiSendCached(q, api_url, outs, idx + 1, log1)

\* rpi_client.main, lines 299-355.
RpiDeliver(s, r) ==
  IF s.working_api_url # None
  THEN \E response \in PostResponses :
         LET p == Post(r, s.working_api_url, response)
             s1 == [s EXCEPT !.posts = Append(@, p),
                             !.accepted = @ \o Accepted201(<<p>>)]
         IN  IF response.raised
             THEN \E resp \in ProbeOracles :
                    LET s2 == Resolve([s1 EXCEPT !.local_readings =
                                                    Append(@, r)], resp)
                    IN  Commit(IF s2.working_api_url = None
                               THEN [s2 EXCEPT !.working_api_url =
                                                  s.working_api_url]
                               ELSE s2)
             ELSE IF response.status_code = 201
             THEN IF s1.local_readings # <<>>
                  THEN \E outs \in [1..Len(s1.local_readings) -> PostResponses] :
                         LET log == RpiSendCached(s1.local_readings,
                                                  s1.working_api_url, outs,
                                                  1, <<>>)
                         IN  Commit([s1 EXCEPT
                                       !.local_readings = <<>>,
                                       !.posts = @ \o log,
                                       !.accepted = @ \o Accepted201(log)])
                  ELSE Commit(s1)
             ELSE Commit(s1)
  ELSE LET s1 == [s EXCEPT !.local_readings = Append(@, r)]
       IN  IF Len(s1.local_readings) % RecheckEvery = 0
           THEN \E resp \in ProbeOracles : Commit(Resolve(s1, resp))
           ELSE Commit(s1)

\* The text of the validated reading of the pass.
RpiData == Strip(Decode(ValidLine).text)

\* The queues the pass is run on: n cached readings, oldest first.
RpiQueues ==
  { [i \in 1..n |-> Reading(i, RpiData)] : n \in 0..(MaxReadings - 1) }

RpiInit ==
  /\ pc = "rpi_client"
  /\ ret = None
  /\ running = TRUE
  /\ serial_port = DEFAULT_SERIAL_PORT
  /\ working_api_url \in {None} \cup Range(Candidates)
  /\ local_readings \in RpiQueues
  /\ ser = <<[port |-> DEFAULT_SERIAL_PORT, is_open |-> TRUE]>>
  /\ connection_attempts = 0
  /\ file = None
  /\ nread = Len(local_readings)
  /\ accepted = <<>>
  /\ line = LineRead(ValidLine)
  /\ devlog = <<"readline">>
  /\ resolutions = <<>>
  /\ posts = <<>>
  /\ answers = [b \in BaseUrls |-> RequestException]
  /\ env = None
  /\ validated = FALSE
  /\ unclosed = {}

\* One pass of rpi_client.main from the validated line on.
RpiPass ==
  /\ pc = "rpi_client"
  /\ RpiDeliver([Cur EXCEPT !.nread = @ + 1, !.pc = "rpi_client_done"],
                Reading(nread + 1, RpiData))

RpiNext == RpiPass

SpecRpi == RpiInit /\ [][RpiNext]_vars


\* ================================================================ claims
Is201(response) == ~response.raised /\ response.status_code = 201

\* The text the code makes of a line: decode, then strip.
TextOf(l) == Strip(Decode(l).text)

SeqsOf(q) == {q[i].seq : i \in DOMAIN q}

\* ---- C1
\* C1: at every cycle boundary each validated reading read so far has been
\* answered with a 201 or is in local_readings exactly once, and the queue
\* holds nothing but validated readings.
C1_NoReadingLost ==
  /\ \A i \in DOMAIN local_readings : local_readings[i].seq \in 1..nread
  /\ \A n \in 1..nread :
       LET inq == Cardinality({i \in DOMAIN local_readings :
                                 local_readings[i].seq = n})
       IN  /\ inq <= 1
           /\ (n \in SeqsOf(accepted)) \/ inq = 1

\* A drain pass stopped by a failure: readings delivered, readings kept.
C1_Witness ==
  /\ Len(accepted) >= 2
  /\ Len(local_readings) >= 2
  /\ Len(posts) >= 2
  /\ ~Is201(posts[Len(posts)].response)

\* ---- C2
\* C2: after a drain pass over queue q the queue is the suffix of q that
\* starts at the first reading whose submission failed (empty if none
\* failed); the readings before it and the failed one were each submitted
\* once, in order, and no reading after it was submitted.
C2_Step ==
  Len(posts') >= 2 =>
    LET q == local_readings
        d == Tail(posts')
        n == Len(d)
    IN  /\ Is201(posts'[1].response)
        /\ n <= Len(q)
        /\ \A i \in 1..n : d[i].data = q[i]
        /\ \A i \in 1..(n - 1) : Is201(d[i].response)
        /\ IF Is201(d[n].response)
           THEN n = Len(q) /\ local_readings' = <<>>
           ELSE local_readings' = SubSeq(q, n, Len(q))

C2_DrainStopsAtFirstFailure == [][C2_Step]_vars

\* Queue [A, B, C]: A is sent, B fails, [B, C] stays.
C2_Witness ==
  /\ Len(posts) = 3
  /\ Is201(posts[2].response)
  /\ ~Is201(posts[3].response)
  /\ Len(local_readings) = 2
  /\ local_readings[1] = posts[3].data

\* ---- C3
\* C3: when the submission of the fresh reading fails (a status other than
\* 201 or a connection failure) the reading is appended to the tail of
\* local_readings and the earlier entries stay as they were.
C3_Step ==
  (posts' # <<>> /\ ~Is201(posts'[1].response)) =>
    /\ nread' = nread + 1
    /\ posts'[1].data = Reading(nread', TextOf(line'.bytes))
    /\ local_readings' = Append(local_readings, posts'[1].data)

C3_FailedReadingAppended == [][C3_Step]_vars

\* A 500 answer to a fresh reading while two readings were queued.
C3_Witness ==
  /\ posts # <<>>
  /\ posts[1].response = Response(500)
  /\ Len(local_readings) = 3
  /\ local_readings[3] = posts[1].data

\* ---- C4
\* C4: a reading that was answered 201 is not submitted again in any later
\* step, no reading is submitted twice in one step, and an accepted reading
\* is not in the queue.
C4_Step ==
  /\ \A i \in DOMAIN posts' :
       /\ posts'[i].data \notin Range(accepted)
       /\ \A j \in DOMAIN posts' : j # i => posts'[j].data # posts'[i].data
  /\ \A a \in Range(accepted') : a \notin Range(local_readings')

C4_AtMostOnce == [][C4_Step]_vars

\* A drain pass in a run where readings had been accepted before.
C4_Witness ==
  /\ Len(posts) >= 3
  /\ Len(accepted) > Len(posts)
  /\ local_readings = <<>>

\* ---- C5
\* C5 as claimed: of two accepted readings the one read first was accepted
\* first.
C5_FifoDelivery ==
  \A i, j \in DOMAIN accepted :
    i < j => accepted[i].seq < accepted[j].seq

\* C5 amended: the queue is in arrival order; a drain pass submits the
\* cached readings in arrival order, and a cached reading that is accepted
\* is older than every reading still queued.  The fresh reading of the
\* step is submitted before the cached ones, which are all older.
C5_BufferedFifo ==
  /\ \A i, j \in DOMAIN local_readings :
       i < j => local_readings[i].seq < local_readings[j].seq
  /\ \A i \in 2..Len(posts) :
       /\ posts[i].data.seq < posts[1].data.seq
       /\ \A j \in (i + 1)..Len(posts) :
            posts[i].data.seq < posts[j].data.seq
       /\ Is201(posts[i].response) =>
            \A k \in DOMAIN local_readings :
              posts[i].data.seq < local_readings[k].seq

\* The fresh reading and one cached reading accepted, two older ones left.
C5_Witness ==
  /\ Len(posts) = 3
  /\ Is201(posts[1].response)
  /\ Is201(posts[2].response)
  /\ ~Is201(posts[3].response)
  /\ Len(local_readings) = 2

\* ---- C6
\* C6: a decoded line makes exactly one Reading, which is submitted or
\* queued, if and only if it holds both markers; a line that lacks a marker
\* makes none, causes no GET and no POST and leaves the queue as it was.
C6_Step ==
  (line'.kind = "bytes" /\ Decode(line'.bytes).ok) =>
    LET r == Reading(nread + 1, TextOf(line'.bytes))
    IN  IF "pH:" \in Range(line'.bytes) /\ "temp:" \in Range(line'.bytes)
        THEN /\ nread' = nread + 1
             /\ \/ posts' # <<>> /\ posts'[1].data = r
                \/ posts' = <<>> /\ local_readings' = Append(local_readings, r)
             /\ Cardinality({i \in DOMAIN local_readings' :
                               local_readings'[i] = r})
                  + Cardinality({i \in DOMAIN accepted' : accepted'[i] = r})
                = 1
        ELSE /\ nread' = nread
             /\ posts' = <<>>
             /\ resolutions' = <<>>
             /\ local_readings' = local_readings
             /\ accepted' = accepted
             /\ working_api_url' = working_api_url

C6_ReadingIffBothMarkers == [][C6_Step]_vars

\* A line with one marker only, read while an endpoint was resolved and
\* readings were queued.
C6_Witness ==
  /\ line = LineRead(<<"pH:", "7.2", "\n">>)
  /\ working_api_url # None
  /\ local_readings # <<>>
  /\ posts = <<>>
  /\ resolutions = <<>>

\* ---- C7
\* C7: a check_api_connection call whose probes all fail returns None, and
\* a valid reading read while no endpoint is resolved (none before the
\* step, and the resolution made for the reading fails) is appended to the
\* queue without a POST; the working endpoint is then what the last
\* resolution of the step returned.
AllProbesFailed(c) ==
  \A i \in DOMAIN c.log : c.log[i].response # Response(200)

C7_Step ==
  /\ \A i \in DOMAIN resolutions' :
       AllProbesFailed(resolutions'[i]) => resolutions'[i].url = None
  /\ ( /\ nread' = nread + 1
       /\ working_api_url = None
       /\ resolutions' # <<>>
       /\ AllProbesFailed(resolutions'[1]) )
     => /\ posts' = <<>>
        /\ working_api_url' = resolutions'[Len(resolutions')].url
        /\ local_readings' =
             Append(local_readings, Reading(nread', TextOf(line'.bytes)))

C7_UnresolvedMeansBuffered == [][C7_Step]_vars

\* Every candidate answered 503 and the second reading was queued.
C7_Witness ==
  /\ Len(resolutions) = 1
  /\ Len(resolutions[1].log) = Len(Candidates)
  /\ \A i \in DOMAIN resolutions[1].log :
       resolutions[1].log[i].response = Response(503)
  /\ working_api_url = None
  /\ posts = <<>>
  /\ Len(local_readings) = 2
  /\ local_readings[2].seq = nread

\* ---- C8
\* C8: check_api_connection probes the candidates in the order primary,
\* alternatives; it returns the first candidate that answers 200, skipping
\* those that answer another status or raise, and None if none answers 200.
C8_FirstHealthyCandidate ==
  pc = "resolved" =>
    LET c == resolutions[1]
        healthy == {i \in DOMAIN Candidates :
                      answers[BaseUrl(Candidates[i])] = Response(200)}
        k == IF healthy = {} THEN Len(Candidates)
             ELSE CHOOSE i \in healthy : \A j \in healthy : i <= j
    IN  /\ Len(resolutions) = 1
        /\ Len(c.log) = k
        /\ \A i \in 1..k :
             /\ c.log[i].url = BaseUrl(Candidates[i])
             /\ c.log[i].response = answers[BaseUrl(Candidates[i])]
        /\ c.url = IF healthy = {} THEN None ELSE Candidates[k]
        /\ working_api_url = c.url

\* The primary answers 503, the first alternative raises, the second
\* answers 200 and is returned.
C8_Witness ==
  /\ pc = "resolved"
  /\ answers[BaseUrl(API_URL)] = Response(503)
  /\ answers[BaseUrl(ALTERNATIVE_API_URLS[1])] = RequestException
  /\ answers[BaseUrl(ALTERNATIVE_API_URLS[2])] = Response(200)
  /\ working_api_url = ALTERNATIVE_API_URLS[2]

\* ---- C10
\* C10: a read timeout on a connected handle leaves the handle open and
\* unchanged, makes no close, connect or discovery call, and leaves
\* connection_attempts, the queue and the working endpoint unchanged.
C10_Step ==
  (ser # None /\ line' = LineRead(<<>>)) =>
    /\ ser' = ser
    /\ ser'[1].is_open
    /\ devlog' = <<"readline">>
    /\ connection_attempts' = connection_attempts
    /\ serial_port' = serial_port
    /\ local_readings' = local_readings
    /\ working_api_url' = working_api_url
    /\ posts' = <<>>
    /\ resolutions' = <<>>
    /\ pc' = "loop"

C10_TimeoutIsNoFault == [][C10_Step]_vars

\* A timeout on a connected handle, with readings queued.
C10_Witness ==
  /\ line = LineRead(<<>>)
  /\ devlog = <<"readline">>
  /\ ser # None
  /\ local_readings # <<>>
  /\ working_api_url # None

\* ---- C11
\* C11: once a shutdown signal has been received, the pass in progress
\* starts no endpoint probe and no submission: a pass that held a line when
\* the signal came in ends with no resolution and no POST of its own.
C11_NothingStartedAfterSignal ==
  (pc = "loop" /\ ~running /\ line.kind = "bytes")
    => (resolutions = <<>> /\ posts = <<>>)

\* ---- C18
\* C18: while the delivery of a reading is in flight, the next line can be
\* read from the device.
C18_ReadWhileDelivering == (pc = "deliver") => ENABLED ReadPhase

\* ---- C12
\* C12: from every state of the loop in which the shutdown signal has been
\* received, main reaches its exit with return code 0, having called close
\* on the device handle if there is one and written a non-empty queue to
\* the file.
C12_ShutdownCompletes ==
  (pc = "loop" /\ ~running)
    ~> (/\ pc = "exit"
        /\ ret = <<0>>
        /\ (ser # None) = (devlog = <<"close">>)
        /\ (ser # None /\ ser[1].is_open) => devlog = <<"close">>
        /\ local_readings # <<>> => file = <<JsonDump(local_readings)>>)

\* Shut down while disconnected, past the failure threshold, with readings
\* in the queue.
C12_Witness ==
  /\ pc = "exit"
  /\ ret = <<0>>
  /\ ser = None
  /\ connection_attempts >= max_connection_attempts
  /\ Len(local_readings) >= 2
  /\ file = <<JsonDump(local_readings)>>

\* ---- C13
\* What unsent_readings.json holds; no file counts as an empty list.
FileContents == IF file = None THEN <<>> ELSE file[1]

\* C13: after every shutdown with return code 0 the file holds exactly the
\* queue as it was at shutdown, same readings in the same order, also when
\* the queue is empty and an earlier run left a file.
C13_FileHoldsQueue ==
  (pc = "exit" /\ ret = <<0>>) => FileContents = JsonDump(local_readings)

\* ---- C14
\* A readline result in which the probe sees a reading: bytes that decode
\* to a text with both markers.
SeesReading(r) ==
  /\ ~r.raised
  /\ Decode(r.bytes).ok
  /\ {"pH:", "temp:"} \subseteq Range(Decode(r.bytes).text)

\* A device that passes both phases of the check: it is there, it opens
\* (twice: the open test and the probe), its input can be flushed, and one
\* of the first ProbeAttempts reads is a reading.
Qualifies(b) ==
  /\ b.exists /\ b.opens /\ b.probe_opens /\ b.flush_ok
  /\ \E i \in 1..ProbeAttempts : i <= Len(b.reads) /\ SeesReading(b.reads[i])

NoDeviceAtStartup(dev) ==
  /\ ~Exists(dev, SERIAL_PORT)
  /\ \A p \in DOMAIN dev : ~Qualifies(dev[p])

\* C14: main returns 1 exactly when the startup finds no device (the
\* configured path does not exist and no candidate passes the check); it
\* has then made no connect, read, probe or submission and written no
\* file.  A run that entered the loop returns 0.
C14_ExitCodes ==
  /\ env # None => ((pc = "exit" /\ ret = <<1>>) <=> NoDeviceAtStartup(env[1]))
  /\ env # None => pc \in {"exit", "loop"}
  /\ pc = "exit" => ret = (IF env # None THEN <<1>> ELSE <<0>>)
  /\ ret = <<1>> =>
       /\ pc = "exit"
       /\ serial_port = None /\ ser = None
       /\ devlog = <<"find_arduino_port">>
       /\ line = NoLine /\ nread = 0
       /\ resolutions = <<>> /\ posts = <<>> /\ accepted = <<>>
       /\ local_readings = <<>> /\ file = None

\* The configured path is missing and the only device present is not the
\* instrument: main returns 1.
C14_Witness ==
  /\ pc = "exit"
  /\ ret = <<1>>
  /\ env # None
  /\ Exists(env[1], ACM0)

\* ---- C15
\* The candidate list of find_arduino_port: the USB nodes by number, then
\* the ACM nodes.
CandidateOrder == <<USB0, USB1, ACM0>>

\* C15: find_arduino_port returns the first candidate, in list order, that
\* opens and whose probe sees a line with both markers within 3 reads;
\* timeouts, undecodable lines and read errors each use up a read; it
\* returns None exactly when no candidate qualifies.
C15_FirstQualifyingCandidate ==
  pc = "discovered" =>
    LET dev == env[1]
        q == {i \in DOMAIN CandidateOrder : Qualifies(dev[CandidateOrder[i]])}
    IN  IF q = {} THEN serial_port = None
        ELSE /\ serial_port # None
             /\ \E i \in q : /\ serial_port = CandidateOrder[i]
                              /\ \A j \in q : i <= j

\* ttyUSB0 opens but is not the sensor, ttyUSB1 cannot be opened, and
\* ttyACM0 sends its first reading on the third read.
C15_Witness ==
  /\ pc = "discovered"
  /\ serial_port = ACM0
  /\ env[1][USB0].probe_opens /\ env[1][USB0].flush_ok
  /\ ~Qualifies(env[1][USB0])
  /\ env[1][USB1].exists /\ ~env[1][USB1].opens
  /\ ~SeesReading(env[1][ACM0].reads[1])
  /\ ~SeesReading(env[1][ACM0].reads[2])

\* ---- C16
\* C16: every device path main is connected to, from the startup or after
\* a reconnect, has passed the two-phase check of find_arduino_port.
C16_OnlyValidatedPaths ==
  (ser # None /\ ser[1].port # None) => validated

\* ---- C17
\* C17: no error of a pass (device fault, other exception of the read,
\* undecodable or malformed line, failed submission, failed probes) ends
\* the run or clears `running`: a pass of the loop ends in the loop, and
\* the loop is left only with `running` cleared by a signal, to return 0.
C17_Step ==
  /\ (pc = "loop" /\ running /\ devlog' # <<>>)
       => (pc' = "loop" /\ running' /\ ret' = None)
  /\ (pc = "loop" /\ pc' # "loop")
       => (~running /\ pc' = "exit" /\ ret' = <<0>>)
  /\ (running /\ ~running') => (devlog' = <<>> /\ posts' = <<>>)

C17_ErrorsDoNotEndTheRun == [][C17_Step]_vars

\* A device fault in a run that has readings queued and no endpoint: the
\* loop goes on.
C17_Witness ==
  /\ pc = "loop"
  /\ running
  /\ line.kind = "SerialException"
  /\ Len(local_readings) >= 2
  /\ working_api_url = None

\* ---- C19
\* C19: a pass that starts disconnected with 10 or more failed attempts
\* runs the discovery before any connect; and when that discovery found no
\* device, the next pass starts with another discovery.
C19_Step ==
  /\ (pc = "loop" /\ ser = None /\ devlog' # <<>>
        /\ connection_attempts >= max_connection_attempts)
       => devlog'[1] = "find_arduino_port"
  /\ (pc = "loop" /\ devlog = <<"find_arduino_port">> /\ serial_port = None
        /\ devlog' # <<>>)
       => devlog'[1] = "find_arduino_port"

C19_DiscoveryRetriedAfterCooldown == [][C19_Step]_vars

\* ---- C20
\* C20: a step that brings connection_attempts back to 0 has just opened
\* the device (the connect of that step worked and its read followed); any
\* other change of the counter is an increment by 1 in a pass that ended in
\* a failed connect.
C20_Step ==
  /\ (connection_attempts # 0 /\ connection_attempts' = 0)
       => (\E i \in 1..(Len(devlog') - 1) :
             devlog'[i] = "Serial" /\ devlog'[i + 1] = "readline")
  /\ (connection_attempts' # connection_attempts /\ connection_attempts' # 0)
       => (/\ connection_attempts' = connection_attempts + 1
           /\ devlog' # <<>>
           /\ devlog'[Len(devlog')] = "Serial")

C20_ResetOnlyOnConnect == [][C20_Step]_vars

\* ---- C21
\* C21: after a pass in which the device read raised an I/O error
\* (SerialException), the handle has been dropped: ser is None, so the next
\* read can only be made on a handle of a new connect.
C21_FaultedHandleDropped ==
  (pc = "loop" /\ line.kind = "SerialException") => ser = None

\* ---- C22
\* C22: when find_arduino_port returns, every handle that it or
\* test_read_from_port opened has been closed, whatever the candidates did
\* (accepted, rejected after 3 reads, open failure, exception while
\* flushing or reading).
C22_DiscoveryLeavesNoHandle == (pc = "discovered") => unclosed = {}

\* ---- C23
\* C23: a pass whose line cannot be decoded leaves the connection as it
\* is: the handle the line was read from stays in ser, open and not closed,
\* connection_attempts changes only by the reset of a connect made in the
\* same pass, no probe or POST is made, queue and endpoint are unchanged,
\* and the pass after it starts with a read on that handle.
C23_Step ==
  /\ (line'.kind = "bytes" /\ line'.bytes # <<>> /\ ~Decode(line'.bytes).ok)
       => /\ ser' # None /\ ser'[1].is_open
          /\ ser # None => ser' = ser
          /\ "close" \notin Range(devlog')
          /\ connection_attempts' =
               (IF "Serial" \in Range(devlog') THEN 0 ELSE connection_attempts)
          /\ resolutions' = <<>> /\ posts' = <<>>
          /\ local_readings' = local_readings
          /\ working_api_url' = working_api_url
          /\ nread' = nread /\ accepted' = accepted
          /\ pc' = "loop"
  /\ (pc = "loop" /\ line.kind = "bytes" /\ line.bytes # <<>>
        /\ ~Decode(line.bytes).ok /\ devlog' # <<>> /\ pc' = "loop")
       => devlog'[1] = "readline"

C23_DecodeErrorKeepsConnection == [][C23_Step]_vars

\* An undecodable line read on a handle of an earlier pass, with readings
\* in the queue.
C23_Witness ==
  /\ pc = "loop"
  /\ line.kind = "bytes"
  /\ line.bytes # <<>>
  /\ ~Decode(line.bytes).ok
  /\ devlog = <<"readline">>
  /\ Len(local_readings) >= 2
  /\ ser # None

\* ---- C24
\* C24: in a pass that submits its fresh reading, a failed submission is
\* followed by exactly one re-resolution, the reading is then at the tail
\* of the queue and the working endpoint is what that re-resolution
\* returned (None if it found nothing); a successful submission leaves the
\* endpoint it was sent to as the working endpoint and makes no
\* re-resolution.
C24_Step ==
  posts' # <<>> =>
    LET p == posts'[1]
        before == IF working_api_url = None THEN 1 ELSE 0
    IN  /\ working_api_url # None => p.url = working_api_url
        /\ IF Is201(p.response)
           THEN /\ Len(resolutions') = before
                /\ working_api_url' = p.url
           ELSE /\ Len(resolutions') = before + 1
                /\ working_api_url' = resolutions'[Len(resolutions')].url
                /\ Len(posts') = 1
                /\ local_readings' = Append(local_readings, p.data)

C24_FailedSubmitReResolves == [][C24_Step]_vars

\* A failed submission after which the re-resolution chose another
\* candidate.
C24_Witness ==
  /\ posts # <<>>
  /\ ~Is201(posts[1].response)
  /\ working_api_url # None
  /\ working_api_url # posts[1].url
  /\ local_readings # <<>>

\* ---- C25
\* C25: after the flush of the cached readings in rpi_client.main the
\* queue is exactly the suffix that starts at the first cached reading
\* whose submission failed (exception or a status other than 201), and is
\* empty when none failed; no reading after the failed one was submitted.
C25_Step ==
  (pc = "rpi_client" /\ Len(posts') >= 2) =>
    LET q == local_readings
        d == Tail(posts')
        n == Len(d)
    IN  /\ n <= Len(q)
        /\ \A i \in 1..n : d[i].data = q[i]
        /\ \A i \in 1..(n - 1) : Is201(d[i].response)
        /\ IF Is201(d[n].response)
           THEN n = Len(q) /\ local_readings' = <<>>
           ELSE local_readings' = SubSeq(q, n, Len(q))

C25_RpiFlushStopsAtFirstFailure == [][C25_Step]_vars

\* ---- C26
\* C26: in rpi_client.main a fresh reading whose submission fails, by an
\* exception or by a status other than 201, is appended to the tail of
\* local_readings.
C26_Step ==
  (pc = "rpi_client" /\ posts' # <<>> /\ ~Is201(posts'[1].response))
    => local_readings' = Append(local_readings, posts'[1].data)

C26_RpiFailedReadingBuffered == [][C26_Step]_vars

\* ---- C28
\* C28: whenever a pass of serial_reader.main attempts a connect,
\* serial_port is a device path (the configured one or one a discovery
\* returned), never the None of a failed discovery.
C28_ConnectOnlyWithPath ==
  (pc = "loop" /\ "Serial" \in Range(devlog)) => serial_port # None

====
